---- MODULE Spec2Model ----
(***************************************************************************)
(* did_jwt: creation and verification of DID-bound JWTs                    *)
(* (src/src/did_jwt/__init__.py).                                          *)
(*                                                                         *)
(* Representation of Python values                                         *)
(*   - a str is a sequence of text tokens (<<>> is the empty string ""),   *)
(*     a token is an atomic piece of text; "#" is a token of its own;      *)
(*   - an optional value (what dict.get returns) is a set of at most one   *)
(*     element: {} is None, {v} is the value v;                            *)
(*   - a JSON object (header, payload) is a record of optional values,     *)
(*     one field per key the program reads;                                *)
(*   - a compact token (the jwt argument) is a sequence of symbols: the    *)
(*     separator ".", the padding "=", a signature character, or the      *)
(*     unpadded base64url text of one JSON object, either of its canonical *)
(*     text or of another JSON text of the same object.                    *)
(***************************************************************************)
EXTENDS Integers, Sequences, FiniteSets, TLC

----------------------------------------------------------------------------
(* Bounds of the model *)

\* the clock starts here
T0 == 1000
\* the clock advances at most this many seconds during a run
MaxTick == 1
\* longest verificationMethod list a resolver answers with
MaxVM == 2

----------------------------------------------------------------------------
(* Program constants *)

\* line 132: skew_time = 300
skew_time == 300
\* line 79: EXPIRATION_TIME = 300
EXPIRATION_TIME == 300
\* line 106: the issuer of a self-issued token
SELF_ISSUED == <<"https://self-issued.me/v2">>

----------------------------------------------------------------------------
(* Python values *)

None == {}
Some(v) == {v}
\* the value of an optional that is not None
Val(o) == CHOOSE v \in o : TRUE

\* truthiness of an optional str: None and "" are falsy
TruthyStr(o) == o # None /\ Val(o) # <<>>

\* a JSON object with the keys the program reads
Obj(kid, iss, sub, sub_jwk, exp, iat, aud) ==
    [kid |-> kid, iss |-> iss, sub |-> sub, sub_jwk |-> sub_jwk,
     exp |-> exp, iat |-> iat, aud |-> aud]
EmptyObj == Obj(None, None, None, None, None, None, None)

\* str.split(sep)[0]: the text before the first occurrence of sep
RECURSIVE SplitFirst(_, _)
SplitFirst(s, sep) ==
    IF s = <<>> THEN <<>>
    ELSE IF Head(s) = sep THEN <<>>
    ELSE <<Head(s)>> \o SplitFirst(Tail(s), sep)

----------------------------------------------------------------------------
(* Compact tokens *)

\* a symbol is its kind k and, for base64url text, the object o it encodes
Dot == [k |-> ".", o |-> None]
Pad == [k |-> "=", o |-> None]
SigCh(c) == [k |-> c, o |-> None]
\* the unpadded base64url text of the canonical JSON of object o
B64(o) == [k |-> "b64", o |-> Some(o)]
\* the unpadded base64url text of a JSON text of o that is not the canonical one
\* (other key order, white space)
B64Loose(o) == [k |-> "b64-loose", o |-> Some(o)]

\* str.split("."): the list of parts of a symbol sequence
RECURSIVE Split(_)
Split(s) ==
    IF s = <<>> THEN << <<>> >>
    ELSE LET rest == Split(Tail(s)) IN
         IF Head(s) = Dot THEN << <<>> >> \o rest
         ELSE << <<Head(s)>> \o Head(rest) >> \o Tail(rest)

\* ".".join(parts)
RECURSIVE Join(_)
Join(parts) ==
    IF parts = <<>> THEN <<>>
    ELSE IF Len(parts) = 1 THEN parts[1]
    ELSE parts[1] \o <<Dot>> \o Join(Tail(parts))

\* s.replace("=", "")
RECURSIVE StripPad(_)
StripPad(s) ==
    IF s = <<>> THEN <<>>
    ELSE IF Head(s) = Pad THEN StripPad(Tail(s))
    ELSE <<Head(s)>> \o StripPad(Tail(s))

\* json.loads(base64.urlsafe_b64decode(pad_base64(part)).decode("utf-8")):
\* whether it succeeds, and the object it yields
Decodable(part) == Len(part) = 1 /\ part[1].k \in {"b64", "b64-loose"}
Decoded(part) == Val(part[1].o)

\* the number of characters of a text token
TokLen(t) ==
    CASE t = "https://self-issued.me/v2" -> 25
      [] t \in {"did:x:0", "did:x:1", "did:x:2", "did:x:3"} -> 7
      [] t = "key-1" -> 5
      [] t = "jwk" -> 3
      [] OTHER -> 1

RECURSIVE StrLen(_)
StrLen(s) == IF s = <<>> THEN 0 ELSE TokLen(Head(s)) + StrLen(Tail(s))

\* the number of decimal digits of a natural number
RECURSIVE Digits(_)
Digits(n) == IF n < 10 THEN 1 ELSE 1 + Digits(n \div 10)

\* canonicalize(o): the length in bytes of the canonical JSON text of o, which
\* has one member "key":value per key that is set, separated by commas
CanonLen(o) ==
    LET str(key, f) == IF f = None THEN 0 ELSE key + 3 + StrLen(Val(f)) + 2 + 1
        num(key, f) == IF f = None THEN 0 ELSE key + 3 + Digits(Val(f)) + 1
        jwk(key, f) == IF f = None THEN 0 ELSE key + 3 + TokLen(Val(f)) + 2 + 1
        members == str(3, o.kid) + str(3, o.iss) + str(3, o.sub) + jwk(7, o.sub_jwk)
                   + num(3, o.exp) + num(3, o.iat) + str(3, o.aud)
    IN IF members = 0 THEN 2 ELSE members + 1

\* base64.urlsafe_b64encode(canonicalize(o)).decode("utf-8"): the text, then
\* one "=" per byte missing from the last group of three
urlsafe_b64encode(o) ==
    LET missing == (3 - (CanonLen(o) % 3)) % 3 IN
    <<B64(o)>> \o [i \in 1..missing |-> Pad]

----------------------------------------------------------------------------
(* Exceptions: a raised exception is its class and its message; Ok is      *)
(* "nothing raised".                                                       *)

Exc(cls, msg) == [cls |-> cls, msg |-> msg]
Ok == Exc("", "")

----------------------------------------------------------------------------
(* decode_jws, decode_jwt (lines 12-34) *)

\* decode_jws_exc that asks for three segments or more
decode_jws_exc_AtLeast3(jws) ==
    LET parts == Split(jws) IN
    IF Len(parts) < 3 THEN Exc("AssertionError", "")
    ELSE IF ~Decodable(parts[1]) THEN Exc("ValueError", "")
    ELSE Ok

\* lines 12-22: the exception decode_jws raises, and the dict it returns
decode_jws_exc(jws) ==
    LET parts == Split(jws) IN
    IF Len(parts) # 3 THEN Exc("AssertionError", "")
    ELSE IF ~Decodable(parts[1]) THEN Exc("ValueError", "")
    ELSE Ok

\* decode_jws with the signing input rebuilt from the parsed header
decode_jws_reencoded(jws) ==
    LET parts == Split(jws) IN
    [header    |-> Decoded(parts[1]),
     payload   |-> parts[2],
     signature |-> parts[3],
     data      |-> StripPad(urlsafe_b64encode(Decoded(parts[1]))) \o <<Dot>> \o parts[2]]

decode_jws(jws) ==
    LET parts == Split(jws) IN
    [header    |-> Decoded(parts[1]),
     payload   |-> parts[2],
     signature |-> parts[3],
     data      |-> parts[1] \o <<Dot>> \o parts[2]]

\* lines 25-34
decode_jwt_exc(jwt) ==
    IF decode_jws_exc(jwt) # Ok THEN decode_jws_exc(jwt)
    ELSE IF ~Decodable(decode_jws(jwt).payload) THEN Exc("ValueError", "")
    ELSE Ok

decode_jwt(jwt) ==
    LET jws == decode_jws(jwt) IN
    [header    |-> jws.header,
     payload   |-> Decoded(jws.payload),
     signature |-> jws.signature,
     data      |-> jws.data]

----------------------------------------------------------------------------
(* verify_jwt, the synchronous pieces between its awaits *)

\* lines 102-119: the DID handed to the resolver, or the exception raised
\* while it is determined
Determined(did) == [exc |-> Ok, did |-> did]
Failed(e) == [exc |-> e, did |-> None]

\* str.rsplit(sep, 1)[0]: the text before the last occurrence of sep
RECURSIVE SplitLast(_, _)
SplitLast(s, sep) ==
    IF s = <<>> THEN <<>>
    ELSE IF \A i \in 1..Len(s) : s[i] # sep THEN s
    ELSE IF s[Len(s)] = sep THEN SubSeq(s, 1, Len(s) - 1)
    ELSE SplitLast(SubSeq(s, 1, Len(s) - 1), sep)

\* SubjectDid cutting header.kid at its last "#"
SubjectDid_LastHash(payload, header) ==
    IF payload.iss = None THEN Failed(Exc("AssertionError", "Missing issuer"))
    ELSE IF Val(payload.iss) = SELF_ISSUED
    THEN IF payload.sub = None THEN Failed(Exc("AssertionError", "Missing subject"))
         ELSE IF payload.sub_jwk = None THEN Determined(payload.sub)
         ELSE IF header.kid = None THEN Failed(Exc("AttributeError", ""))
         ELSE Determined(Some(SplitLast(Val(header.kid), "#")))
    ELSE Determined(payload.iss)

\* SubjectDid without the check that a self-issued token carries sub
SubjectDid_NoSubjectCheck(payload, header) ==
    IF payload.iss = None THEN Failed(Exc("AssertionError", "Missing issuer"))
    ELSE IF Val(payload.iss) = SELF_ISSUED
    THEN IF payload.sub_jwk = None THEN Determined(payload.sub)
         ELSE IF header.kid = None THEN Failed(Exc("AttributeError", ""))
         ELSE Determined(Some(SplitFirst(Val(header.kid), "#")))
    ELSE Determined(payload.iss)

SubjectDid(payload, header) ==
    IF payload.iss = None THEN Failed(Exc("AssertionError", "Missing issuer"))
    ELSE IF Val(payload.iss) = SELF_ISSUED
    THEN IF payload.sub = None THEN Failed(Exc("AssertionError", "Missing subject"))
         ELSE IF payload.sub_jwk = None THEN Determined(payload.sub)
         ELSE IF header.kid = None THEN Failed(Exc("AttributeError", ""))
         ELSE Determined(Some(SplitFirst(Val(header.kid), "#")))
    ELSE Determined(payload.iss)

\* lines 124-125: did_resolution_result.get("didDocument").get("verificationMethod")[0],
\* or the exception raised while it is selected
Selected(authenticator) == [exc |-> Ok, authenticator |-> authenticator]
NotSelected(e) == [exc |-> e, authenticator |-> None]

\* SelectAuthenticator answering None for an empty list instead of raising
SelectAuthenticator_Lenient(result) ==
    IF result.didDocument = None THEN NotSelected(Exc("AttributeError", ""))
    ELSE LET verificationMethod == Val(result.didDocument).verificationMethod IN
         IF verificationMethod = <<>> THEN Selected(None)
         ELSE Selected(Some(verificationMethod[1]))

\* SelectAuthenticator taking the last verification method
SelectAuthenticator_Last(result) ==
    IF result.didDocument = None THEN NotSelected(Exc("AttributeError", ""))
    ELSE LET verificationMethod == Val(result.didDocument).verificationMethod IN
         IF verificationMethod = <<>> THEN NotSelected(Exc("IndexError", ""))
         ELSE Selected(Some(verificationMethod[Len(verificationMethod)]))

SelectAuthenticator(result) ==
    IF result.didDocument = None THEN NotSelected(Exc("AttributeError", ""))
    ELSE LET verificationMethod == Val(result.didDocument).verificationMethod IN
         IF verificationMethod = <<>> THEN NotSelected(Exc("IndexError", ""))
         ELSE Selected(Some(verificationMethod[1]))

\* IssuedOk that allows no clock skew
IssuedOk_NoSkew(iat, now) == (iat > now) = FALSE

\* line 146: (iat > now_skewed) == False
IssuedOk(iat, now) ==
    LET now_skewed == now + skew_time IN (iat > now_skewed) = FALSE

\* NotExpired with a token that expires exactly at the edge still valid
NotExpired_Strict(exp, now) == (exp < now - skew_time) = FALSE

\* line 148: (exp <= now - skew_time) == False
NotExpired(exp, now) == (exp <= now - skew_time) = FALSE

\* truthiness of config.get("audience"): None, "" and [] are falsy
TruthyAudience(audience) ==
    \/ audience.kind = "str" /\ audience.str # <<>>
    \/ audience.kind = "list" /\ audience.list # <<>>

\* AudienceOk that refuses a token with aud when no audience is configured
AudienceOk_RequireConfigured(payload, audience) ==
    IF TruthyStr(payload.aud)
    THEN IF TruthyAudience(audience)
         THEN IF audience.kind = "list"
              THEN \E i \in 1..Len(audience.list) : audience.list[i] = Val(payload.aud)
              ELSE Val(payload.aud) = audience.str
         ELSE FALSE
    ELSE TRUE
\* lines 150-157: whether the audience asserts pass
AudienceOk(payload, audience) ==
    IF TruthyStr(payload.aud)
    THEN IF TruthyAudience(audience)
         THEN IF audience.kind = "list"
              THEN \E i \in 1..Len(audience.list) : audience.list[i] = Val(payload.aud)
              ELSE Val(payload.aud) = audience.str
         ELSE TRUE
    ELSE TRUE

\* ClaimsExc with exp and iat checked only when they are present
ClaimsExc_OptionalTimestamps(verify, payload, audience, now) ==
    IF ~verify THEN Exc("AssertionError", "Signature verification failed")
    ELSE IF payload.iat # None /\ ~IssuedOk(Val(payload.iat), now)
    THEN Exc("AssertionError", "Issue time is in the future")
    ELSE IF payload.exp # None /\ ~NotExpired(Val(payload.exp), now)
    THEN Exc("AssertionError", "Expired JWT")
    ELSE IF ~AudienceOk(payload, audience) THEN Exc("AssertionError", "Invalid audience")
    ELSE Ok

\* ClaimsExc with the claims validated before the verifier's answer is looked at
ClaimsExc_ClaimsFirst(verify, payload, audience, now) ==
    IF payload.exp = None THEN Exc("AssertionError", "Missing expiration time")
    ELSE IF payload.iat = None THEN Exc("AssertionError", "Missing issue time")
    ELSE IF ~IssuedOk(Val(payload.iat), now)
    THEN Exc("AssertionError", "Issue time is in the future")
    ELSE IF ~NotExpired(Val(payload.exp), now) THEN Exc("AssertionError", "Expired JWT")
    ELSE IF ~AudienceOk(payload, audience) THEN Exc("AssertionError", "Invalid audience")
    ELSE IF ~verify THEN Exc("AssertionError", "Signature verification failed")
    ELSE Ok

\* ClaimsExc that looks at the expiry before the issue time
ClaimsExc_ExpiredFirst(verify, payload, audience, now) ==
    IF ~verify THEN Exc("AssertionError", "Signature verification failed")
    ELSE IF payload.exp = None THEN Exc("AssertionError", "Missing expiration time")
    ELSE IF payload.iat = None THEN Exc("AssertionError", "Missing issue time")
    ELSE IF ~NotExpired(Val(payload.exp), now) THEN Exc("AssertionError", "Expired JWT")
    ELSE IF ~IssuedOk(Val(payload.iat), now)
    THEN Exc("AssertionError", "Issue time is in the future")
    ELSE IF ~AudienceOk(payload, audience) THEN Exc("AssertionError", "Invalid audience")
    ELSE Ok

\* lines 130-157: the exception raised after the verifier has answered
ClaimsExc(verify, payload, audience, now) ==
    IF ~verify THEN Exc("AssertionError", "Signature verification failed")
    ELSE IF payload.exp = None THEN Exc("AssertionError", "Missing expiration time")
    ELSE IF payload.iat = None THEN Exc("AssertionError", "Missing issue time")
    ELSE IF ~IssuedOk(Val(payload.iat), now)
    THEN Exc("AssertionError", "Issue time is in the future")
    ELSE IF ~NotExpired(Val(payload.exp), now) THEN Exc("AssertionError", "Expired JWT")
    ELSE IF ~AudienceOk(payload, audience) THEN Exc("AssertionError", "Invalid audience")
    ELSE Ok

----------------------------------------------------------------------------
(* Inputs: tokens, configurations and capability answers *)

IssDid == <<"did:x:0">>
SubDid == <<"did:x:1">>
Kids == { <<"did:x:2", "#", "key-1">>, <<"did:x:3", "#", "key-1", "#", "k">> }

Headers == { Obj(kid, None, None, None, None, None, None) :
             kid \in {None} \cup { Some(k) : k \in Kids } }

\* exp and iat around the two ends of the skew window of the clock's range
ExpVals == { T0 - skew_time, T0 - skew_time + 1 }
IatVals == { T0 + skew_time, T0 + skew_time + 1 }
AudVals == { <<>>, <<"a">>, <<"c">> }

Payloads ==
    { Obj(None, iss, sub, sub_jwk, exp, iat, aud) :
        iss \in {None, Some(SELF_ISSUED), Some(IssDid)},
        sub \in {None, Some(SubDid)},
        sub_jwk \in {None, Some("jwk")},
        exp \in {None} \cup { Some(t) : t \in ExpVals },
        iat \in {None} \cup { Some(t) : t \in IatVals },
        aud \in {None} \cup { Some(a) : a \in AudVals } }

Sig == <<SigCh("s")>>

\* what a signer may return: a signature, padded or not, or any other text
Signatures ==
    { <<>>, Sig, Sig \o <<Pad>>, <<Pad>> \o Sig \o <<Pad, Pad>>,
      Sig \o <<Dot>> \o Sig }

\* the arguments of create_jwt; a payload may hold claims the module never
\* reads in a payload (here a member "kid") next to the ones it does
CallerPayloads ==
    { Obj(claim, iss, None, None, exp, iat, aud) :
        claim \in {None, Some(<<"n">>)},
        iss \in {None, Some(SubDid)},
        exp \in {None, Some(T0 - skew_time)},
        iat \in {None, Some(T0 - 1)},
        aud \in {None, Some(<<"a">>)} }
Issuers == { IssDid }
CallerHeaders == { EmptyObj, Obj(Some(<<"did:x:2", "#", "key-1">>), None, None, None, None, None, None) }

\* well-formed tokens, and tokens decode_jwt refuses
WellFormed == { <<B64(h), Dot, B64(p), Dot>> \o Sig : h \in Headers, p \in Payloads }
Malformed ==
    { <<SigCh("a")>>,
      <<SigCh("a"), Dot, SigCh("b")>>,
      <<B64(EmptyObj), Dot, B64(EmptyObj), Dot, SigCh("s"), Dot, SigCh("s")>>,
      <<SigCh("a"), Dot, B64(EmptyObj), Dot, SigCh("s")>>,
      <<B64(EmptyObj), Dot, SigCh("b"), Dot, SigCh("s")>> }
\* tokens whose segments are not the canonical encoding of what they hold
Loose ==
    { <<B64Loose(h), Dot, B64Loose(p), Dot>> \o Sig :
        h \in {EmptyObj},
        p \in { Obj(None, Some(IssDid), None, None, exp, Some(T0), None) :
                  exp \in {None, Some(T0)} } }
Tokens == WellFormed \cup Malformed \cup Loose

\* config.get("audience"): unset, a str, or a list of str
Audience(kind, str, list) == [kind |-> kind, str |-> str, list |-> list]
Unset == Audience("unset", <<>>, <<>>)
Audiences ==
    { Unset,
      Audience("str", <<"a">>, <<>>),
      Audience("list", <<>>, <<>>), Audience("list", <<>>, << <<"a">>, <<"b">> >>) }

\* the entries of a verificationMethod list
Keys == {"k1", "k2"}
VMLists == UNION { [1..n -> Keys] : n \in 0..MaxVM }
\* what resolve returns: { didDocument: { verificationMethod: [...] } }
ResolutionResults ==
    { [didDocument |-> Some([verificationMethod |-> l])] : l \in VMLists }

----------------------------------------------------------------------------
(* State *)

VARIABLES
    clock,   \* time.time(), in whole seconds
    vcall,   \* the verify_jwt calls: position, arguments, locals, outcome
    ccall    \* the create_jwt call: position, arguments, locals, outcome

vars == <<clock, vcall, ccall>>

Calls == {"v1", "v2"}

\* a call that has not been made
IdleCall ==
    [pc |-> "idle",
     jwt |-> <<>>, audience |-> Unset,
     payload |-> EmptyObj, header |-> EmptyObj, signature |-> <<>>, data |-> <<>>,
     did |-> None, did_resolution_result |-> None, authenticator |-> None,
     verify |-> None, now |-> 0,
     exc |-> Ok,
     \* the arguments of every resolve and verify_ES256K invocation of the call
     resolved |-> <<>>, verified |-> <<>>,
     \* the keys for which the verifier answers True on this call's (data, signature)
     verifiable |-> {},
     \* the wall clock when the call was made
     entered |-> 0]

\* a create_jwt call that has not been made
IdleCreate ==
    [pc |-> "idle",
     payload |-> EmptyObj, issuer |-> <<>>, header |-> EmptyObj,
     iat |-> 0, full_payload |-> EmptyObj,
     signing_input |-> <<>>, signature |-> <<>>,
     exc |-> Ok, ret |-> None,
     \* the argument of every signer invocation of the call
     signed |-> <<>>]

Init ==
    /\ clock = T0
    /\ vcall = [c \in Calls |-> IdleCall]
    /\ ccall = IdleCreate

\* Raise that also ends every other call waiting at an await
Raise_Shared(c, locals, e) ==
    vcall' = [d \in Calls |->
                IF d = c THEN [locals EXCEPT !.pc = "raised", !.exc = e]
                ELSE IF vcall[d].pc \in {"resolve", "verify"}
                     THEN [vcall[d] EXCEPT !.pc = "raised", !.exc = e]
                     ELSE vcall[d]]

\* an exception leaves the call c of locals `locals`
Raise(c, locals, e) ==
    vcall' = [vcall EXCEPT ![c] = [locals EXCEPT !.pc = "raised", !.exc = e]]

----------------------------------------------------------------------------
(* verify_jwt (lines 93-159) *)

\* lines 95-121: entry, up to the await of resolve(did, config)
VerifyJwt(c, jwt, audience) ==
    /\ vcall[c].pc = "idle"
    /\ LET args == [vcall[c] EXCEPT !.jwt = jwt, !.audience = audience,
                                    !.entered = clock] IN
       IF decode_jwt_exc(jwt) # Ok
       THEN Raise(c, args, decode_jwt_exc(jwt))
       ELSE LET decoded_jwt == decode_jwt(jwt)
                l1 == [args EXCEPT !.payload = decoded_jwt.payload,
                                   !.header = decoded_jwt.header,
                                   !.signature = decoded_jwt.signature,
                                   !.data = decoded_jwt.data]
                subject == SubjectDid(l1.payload, l1.header)
            IN IF subject.exc # Ok
               THEN Raise(c, l1, subject.exc)
               ELSE vcall' = [vcall EXCEPT ![c] =
                                [l1 EXCEPT !.did = subject.did,
                                           !.resolved = Append(@, subject.did),
                                           !.pc = "resolve"]]
    /\ UNCHANGED <<clock, ccall>>

\* lines 121-128: resolve returns; up to the await of verify_ES256K
ResolverReturns(c, result) ==
    /\ vcall[c].pc = "resolve"
    /\ LET l1 == [vcall[c] EXCEPT !.did_resolution_result = Some(result)]
           selected == SelectAuthenticator(result)
       IN IF selected.exc # Ok
          THEN Raise(c, l1, selected.exc)
          ELSE vcall' = [vcall EXCEPT ![c] =
                           [l1 EXCEPT !.authenticator = selected.authenticator,
                                      !.verified = Append(@, [data |-> l1.data,
                                                              signature |-> l1.signature,
                                                              authenticator |-> selected.authenticator]),
                                      !.pc = "verify"]]
    /\ UNCHANGED <<clock, ccall>>

\* ResolverFails that asks the resolver a second time before giving up
ResolverFails_Retry(c) ==
    /\ vcall[c].pc = "resolve"
    /\ IF Len(vcall[c].resolved) < 2
       THEN vcall' = [vcall EXCEPT ![c].resolved = Append(@, vcall[c].did)]
       ELSE Raise(c, vcall[c], Exc("ResolverError", ""))
    /\ UNCHANGED <<clock, ccall>>

\* line 121: resolve raises; the exception leaves verify_jwt
ResolverFails(c) ==
    /\ vcall[c].pc = "resolve"
    /\ Raise(c, vcall[c], Exc("ResolverError", ""))
    /\ UNCHANGED <<clock, ccall>>

\* line 159: the tuple a call with locals l returns
ReturnValue(l) ==
    [payload |-> l.payload,
     did_resolution_result |-> l.did_resolution_result,
     did |-> l.did,
     authenticator |-> l.authenticator,
     jwt |-> l.jwt]

\* VerifierReturns that validates the claims against the clock read on entry
VerifierReturns_EntryClock(c, verifiable) ==
    /\ vcall[c].pc = "verify"
    /\ LET verify == \E k \in vcall[c].authenticator : k \in verifiable
           l1 == [vcall[c] EXCEPT !.verify = Some(verify), !.verifiable = verifiable]
           l2 == IF verify THEN [l1 EXCEPT !.now = vcall[c].entered] ELSE l1
           e  == ClaimsExc(verify, l2.payload, l2.audience, vcall[c].entered)
       IN IF e # Ok
          THEN Raise(c, l2, e)
          ELSE vcall' = [vcall EXCEPT ![c] = [l2 EXCEPT !.pc = "returned"]]
    /\ UNCHANGED <<clock, ccall>>

\* lines 128-159: verify_ES256K returns; the claims are validated
VerifierReturns(c, verifiable) ==
    /\ vcall[c].pc = "verify"
    /\ LET verify == \E k \in vcall[c].authenticator : k \in verifiable
           l1 == [vcall[c] EXCEPT !.verify = Some(verify), !.verifiable = verifiable]
           \* line 134 is reached only when the assert of line 130 passes
           l2 == IF verify THEN [l1 EXCEPT !.now = clock] ELSE l1
           e  == ClaimsExc(verify, l2.payload, l2.audience, clock)
       IN IF e # Ok
          THEN Raise(c, l2, e)
          ELSE vcall' = [vcall EXCEPT ![c] = [l2 EXCEPT !.pc = "returned"]]
    /\ UNCHANGED <<clock, ccall>>

\* line 128: verify_ES256K raises; the exception leaves verify_jwt
VerifierFails(c) ==
    /\ vcall[c].pc = "verify"
    /\ Raise(c, vcall[c], Exc("VerifierError", ""))
    /\ UNCHANGED <<clock, ccall>>

----------------------------------------------------------------------------
(* create_jwt and create_jws (lines 37-90) *)

\* FullPayload that lets the caller's iss override options["issuer"]
FullPayload_CallerIss(timestamps, payload, issuer) ==
    [payload EXCEPT !.iat = IF payload.iat # None THEN payload.iat ELSE timestamps.iat,
                    !.exp = IF payload.exp # None THEN payload.exp ELSE timestamps.exp,
                    !.iss = IF payload.iss # None THEN payload.iss ELSE Some(issuer)]

\* line 88: {**timestamps, **payload, "iss": options["issuer"]}
FullPayload(timestamps, payload, issuer) ==
    [payload EXCEPT !.iat = IF payload.iat # None THEN payload.iat ELSE timestamps.iat,
                    !.exp = IF payload.exp # None THEN payload.exp ELSE timestamps.exp,
                    !.iss = Some(issuer)]

\* lines 52-58: the signing input of create_jws
SigningInput(payload, header) ==
    LET encoded_payload == StripPad(urlsafe_b64encode(payload))
        encoded_header  == StripPad(urlsafe_b64encode(header))
    IN Join(<<encoded_header, encoded_payload>>)

\* lines 61-63: the token built from the signer's answer
CompactJws(signing_input, signed) ==
    LET signature == StripPad(signed) IN Join(<<signing_input, signature>>)

\* lines 79-90 and 52-60: entry, up to the await of signer(signing_input)
CreateJwt(payload, issuer, header) ==
    /\ ccall.pc = "idle"
    /\ LET iat == clock
           timestamps == [iat |-> Some(iat), exp |-> Some(iat + EXPIRATION_TIME)]
           full_payload == FullPayload(timestamps, payload, issuer)
           signing_input == SigningInput(full_payload, header)
       IN ccall' = [ccall EXCEPT !.payload = payload, !.issuer = issuer,
                                 !.header = header, !.iat = iat,
                                 !.full_payload = full_payload,
                                 !.signing_input = signing_input,
                                 !.signed = Append(@, signing_input),
                                 !.pc = "sign"]
    /\ UNCHANGED <<clock, vcall>>

\* lines 60-63 and 90: the signer returns; the token is returned
SignerReturns(signature) ==
    /\ ccall.pc = "sign"
    /\ ccall' = [ccall EXCEPT !.signature = StripPad(signature),
                              !.ret = Some(CompactJws(ccall.signing_input, signature)),
                              !.pc = "returned"]
    /\ UNCHANGED <<clock, vcall>>

\* line 60: the signer raises; the exception leaves create_jwt
SignerFails ==
    /\ ccall.pc = "sign"
    /\ ccall' = [ccall EXCEPT !.exc = Exc("SignerError", ""), !.pc = "raised"]
    /\ UNCHANGED <<clock, vcall>>

\* the wall clock advances
Tick ==
    /\ clock < T0 + MaxTick
    /\ clock' = clock + 1
    /\ UNCHANGED <<vcall, ccall>>

----------------------------------------------------------------------------------------------------------------------------------------
(* The callers and the capabilities *)

\* a caller hands verify_jwt a token it has received
VerifyReceived(c) ==
    /\ vcall[c].pc = "idle"
    /\ ccall.pc = "idle"
    /\ \E jwt \in Tokens, audience \in Audiences : VerifyJwt(c, jwt, audience)

\* a caller hands verify_jwt the token its create_jwt call has returned
VerifyIssued(c) ==
    /\ vcall[c].pc = "idle"
    /\ ccall.pc = "returned"
    /\ \E audience \in Audiences : VerifyJwt(c, Val(ccall.ret), audience)

\* a caller that verifies nothing yet creates a token
Create ==
    /\ \A c \in Calls : vcall[c].pc = "idle"
    /\ \E payload \in CallerPayloads, issuer \in Issuers, header \in CallerHeaders :
         CreateJwt(payload, issuer, header)

\* the signer answers with a signature
Sign == \E signature \in Signatures : SignerReturns(signature)

\* the resolver answers with a resolution result
Resolve(c) ==
    /\ vcall[c].pc = "resolve"
    /\ \E result \in ResolutionResults : ResolverReturns(c, result)

\* the verifier answers; verifiable are the keys it answers True for
Verify(c) ==
    /\ vcall[c].pc = "verify"
    /\ \E verifiable \in SUBSET Keys : VerifierReturns(c, verifiable)

----------------------------------------------------------------------------
(* Specification: a caller that verifies one token, either a token it has  *)
(* received or the token a create_jwt call of its own has returned.        *)

Solo == {"v1"}

Next ==
    \/ \E c \in Solo : VerifyReceived(c)
    \/ \E c \in Solo : VerifyIssued(c)
    \/ Create
    \/ Sign
    \/ SignerFails
    \/ \E c \in Solo : Resolve(c)
    \/ \E c \in Solo : ResolverFails(c)
    \/ \E c \in Solo : Verify(c)
    \/ \E c \in Solo : VerifierFails(c)
    \/ Tick

Spec == Init /\ [][Next]_vars

----------------------------------------------------------------------------
(* Specification: two verify_jwt calls of one event loop, on distinct      *)
(* tokens, interleaved at their awaits (lines 121 and 128).                *)

\* the claims of the tokens the two calls verify
ConcPayloads ==
    { Obj(None, iss, None, None, exp, Some(T0 + skew_time), aud) :
        iss \in {None, Some(IssDid)},
        exp \in {None, Some(T0 - skew_time + 1)},
        aud \in {None, Some(<<"a">>), Some(<<"c">>)} }

ConcTokens == { <<B64(EmptyObj), Dot, B64(p), Dot>> \o Sig : p \in ConcPayloads }

ConcAudiences == {Unset, Audience("str", <<"a">>, <<>>)}

ConcResults ==
    { [didDocument |-> Some([verificationMethod |-> vm])] :
        vm \in {<<>>, <<"k1">>} }

\* a caller hands verify_jwt a token no other call of the loop is verifying
VerifyConcurrent(c) ==
    /\ vcall[c].pc = "idle"
    /\ ccall.pc = "idle"
    /\ \E jwt \in ConcTokens, audience \in ConcAudiences :
         /\ \A d \in Calls \ {c} : vcall[d].jwt # jwt
         /\ VerifyJwt(c, jwt, audience)

ResolveConcurrent(c) ==
    /\ vcall[c].pc = "resolve"
    /\ \E result \in ConcResults : ResolverReturns(c, result)

VerifyAnswerConcurrent(c) ==
    /\ vcall[c].pc = "verify"
    /\ \E verifiable \in {{}, {"k1"}} : VerifierReturns(c, verifiable)

NextConc ==
    \/ \E c \in Calls : VerifyConcurrent(c)
    \/ \E c \in Calls : ResolveConcurrent(c)
    \/ \E c \in Calls : ResolverFails(c)
    \/ \E c \in Calls : VerifyAnswerConcurrent(c)
    \/ \E c \in Calls : VerifierFails(c)
    \/ Tick

SpecConc == Init /\ [][NextConc]_vars

----------------------------------------------------------------------------
(* Specification: a token is created with one reading of the wall clock    *)
(* and verified with another, earlier or later: the clock of another       *)
(* machine, or a clock that was set in between.                            *)

\* readings of time.time() around T0: the edges of the window in which a
\* token created at T0 with the default iat and exp is valid
WindowClock ==
    { T0 + d : d \in { 0 - skew_time - 1, 0 - skew_time, 0 - 1, 0, 1,
                       EXPIRATION_TIME + skew_time - 1,
                       EXPIRATION_TIME + skew_time,
                       EXPIRATION_TIME + skew_time + 1 } }

\* time.time() reads another value than before
SetClock ==
    /\ \E t \in WindowClock \ {clock} : clock' = t
    /\ UNCHANGED <<vcall, ccall>>

\* a caller creates a token, with or without an iat and an exp of its own
CreateTimed ==
    /\ \A c \in Calls : vcall[c].pc = "idle"
    /\ \E payload \in { p \in CallerPayloads : p.kid = None /\ p.iss = None /\ p.aud = None },
          issuer \in Issuers :
         CreateJwt(payload, issuer, EmptyObj)

SignTimed == SignerReturns(Sig)

VerifyTimed(c) ==
    /\ vcall[c].pc = "idle"
    /\ ccall.pc = "returned"
    /\ VerifyJwt(c, Val(ccall.ret), Unset)

NextWindow ==
    \/ CreateTimed
    \/ SignTimed
    \/ \E c \in Solo : VerifyTimed(c)
    \/ \E c \in Solo : ResolveConcurrent(c)
    \/ \E c \in Solo : VerifyAnswerConcurrent(c)
    \/ SetClock

SpecWindow == Init /\ [][NextWindow]_vars

\* the same, with capabilities that answer every call: an awaited resolver or
\* verifier eventually returns or raises
Answering ==
    \A c \in Calls :
        /\ WF_vars(ResolveConcurrent(c) \/ ResolverFails(c))
        /\ WF_vars(VerifyAnswerConcurrent(c) \/ VerifierFails(c))

SpecAnswering == Init /\ [][NextConc]_vars /\ Answering

----------------------------------------------------------------------------
(* Outcomes of a verify_jwt call, in the terms of the specification *)

\* the rejection reason of the specification's taxonomy an exception stands for
Reason(e) ==
    CASE e.cls = "AssertionError" /\ e.msg = "" -> "FormatError"
      [] e.cls = "ValueError" -> "FormatError"
      [] e.cls = "AssertionError"
         /\ e.msg \in {"Missing issuer", "Missing subject",
                       "Missing expiration time", "Missing issue time"} -> "MissingClaim"
      [] e.cls = "ResolverError" -> "ResolutionError"
      [] e.cls = "IndexError" -> "NoVerificationMethod"
      [] e.cls = "AssertionError" /\ e.msg = "Signature verification failed" -> "SignatureInvalid"
      [] e.cls = "VerifierError" -> "SignatureInvalid"
      [] e.cls = "AssertionError"
         /\ e.msg \in {"Issue time is in the future", "Expired JWT"} -> "TemporalError"
      [] e.cls = "AssertionError" /\ e.msg = "Invalid audience" -> "AudienceMismatch"
      [] OTHER -> "Other"

Accepted(c) == vcall[c].pc = "returned"
Rejected(c, reason) == vcall[c].pc = "raised" /\ Reason(vcall[c].exc) = reason

\* the verificationMethod list the resolver answered with (<<>> when it gave none)
ResolvedMethods(c) ==
    IF vcall[c].did_resolution_result = None THEN <<>>
    ELSE IF Val(vcall[c].did_resolution_result).didDocument = None THEN <<>>
    ELSE Val(Val(vcall[c].did_resolution_result).didDocument).verificationMethod

\* the audience rule of the specification: aud present and an audience configured
\* (a str or a collection, empty or not) require membership, resp. equality
AudienceRule(payload, audience) ==
    (payload.aud # None /\ audience.kind # "unset") =>
        IF audience.kind = "list"
        THEN \E i \in 1..Len(audience.list) : audience.list[i] = Val(payload.aud)
        ELSE audience.str = Val(payload.aud)

----------------------------------------------------------------------------
(* Claims *)

\* C1: verify_jwt returns its result tuple only if, during that call, iss was
\* present, the resolver returned a result, the verifier answered true for the
\* first verification method, exp and iat were present, iat <= now + 300,
\* exp > now - 300, and the audience rule passed.
C1_AllOrNothing ==
    \A c \in Calls :
        Accepted(c) =>
            /\ vcall[c].payload.iss # None
            /\ Len(vcall[c].resolved) = 1
            /\ vcall[c].did_resolution_result # None
            /\ ResolvedMethods(c) # <<>>
            /\ Len(vcall[c].verified) = 1
            /\ vcall[c].verified[1].authenticator = Some(ResolvedMethods(c)[1])
            /\ ResolvedMethods(c)[1] \in vcall[c].verifiable
            /\ vcall[c].payload.exp # None
            /\ vcall[c].payload.iat # None
            /\ Val(vcall[c].payload.iat) <= vcall[c].now + 300
            /\ Val(vcall[c].payload.exp) > vcall[c].now - 300
            /\ AudienceRule(vcall[c].payload, vcall[c].audience)

\* C2: when the resolver returns a DID document whose verificationMethod list
\* is empty, the call ends Rejected(NoVerificationMethod) and the verifier is
\* never invoked in that call.
EmptyMethods(c) ==
    /\ vcall[c].did_resolution_result # None
    /\ Val(vcall[c].did_resolution_result).didDocument # None
    /\ ResolvedMethods(c) = <<>>

C2_EmptyMethodsRejected ==
    \A c \in Calls :
        EmptyMethods(c) =>
            /\ Rejected(c, "NoVerificationMethod")
            /\ vcall[c].verified = <<>>
            /\ vcall[c].verify = None

C2_Witness == \E c \in Calls : EmptyMethods(c) /\ vcall[c].pc = "raised"

\* C3: the verifier is invoked with exactly the first element of
\* didDocument.verificationMethod and with no other: when it answers false for
\* element 0 the call is rejected even if a later element would verify, and
\* the authenticator returned on acceptance is element 0.
C3_FirstMethodOnly ==
    \A c \in Calls :
        /\ vcall[c].verified # <<>> =>
              /\ Len(vcall[c].verified) = 1
              /\ ResolvedMethods(c) # <<>>
              /\ vcall[c].verified[1].authenticator = Some(ResolvedMethods(c)[1])
        /\ (vcall[c].verify # None /\ ResolvedMethods(c)[1] \notin vcall[c].verifiable) =>
              Rejected(c, "SignatureInvalid")
        /\ Accepted(c) => ReturnValue(vcall[c]).authenticator = Some(ResolvedMethods(c)[1])

C3_Witness ==
    \E c \in Calls :
        /\ vcall[c].verify # None
        /\ Len(ResolvedMethods(c)) >= 2
        /\ ResolvedMethods(c)[1] \notin vcall[c].verifiable
        /\ ResolvedMethods(c)[2] \in vcall[c].verifiable
        /\ Rejected(c, "SignatureInvalid")

\* C4: the DID passed to the resolver is payload.iss when iss is not the
\* self-issued issuer; payload.sub when it is, sub is present and sub_jwk is
\* absent; and the text of header.kid before its first "#" when it is, sub is
\* present and sub_jwk is present.
\* d is the text of s before the first "#" of s (all of s when s has none)
BeforeFirstHash(d, s) ==
    /\ Len(d) <= Len(s)
    /\ \A i \in 1..Len(d) : d[i] = s[i] /\ d[i] # "#"
    /\ Len(d) < Len(s) => s[Len(d) + 1] = "#"

SelfIssued(p) == p.iss = Some(<<"https://self-issued.me/v2">>)

C4_ResolvedDid ==
    \A c \in Calls :
        LET p == vcall[c].payload
            h == vcall[c].header
            parsed == vcall[c].pc # "idle" /\ Reason(vcall[c].exc) # "FormatError"
            passed(d) == vcall[c].resolved = <<Some(d)>>
        IN /\ vcall[c].resolved # <<>> => parsed /\ p.iss # None
           /\ (parsed /\ p.iss # None /\ ~SelfIssued(p)) => passed(Val(p.iss))
           /\ (parsed /\ SelfIssued(p) /\ p.sub # None /\ p.sub_jwk = None) =>
                 passed(Val(p.sub))
           /\ (parsed /\ SelfIssued(p) /\ p.sub # None /\ p.sub_jwk # None /\ h.kid # None) =>
                 \E d \in vcall[c].did :
                     passed(d) /\ BeforeFirstHash(d, Val(h.kid))

C4_Witness ==
    \E c \in Calls :
        /\ SelfIssued(vcall[c].payload)
        /\ vcall[c].payload.sub_jwk # None
        /\ vcall[c].header.kid = Some(<<"did:x:3", "#", "key-1", "#", "k">>)
        /\ vcall[c].resolved = <<Some(<<"did:x:3">>)>>

\* C5: a token whose payload lacks iss, or whose iss is the self-issued issuer
\* and whose payload lacks sub, ends Rejected(MissingClaim), and neither the
\* resolver nor the verifier is invoked in that call.
LacksSubject(c) ==
    /\ vcall[c].pc # "idle"
    /\ Reason(vcall[c].exc) # "FormatError"
    /\ \/ vcall[c].payload.iss = None
       \/ SelfIssued(vcall[c].payload) /\ vcall[c].payload.sub = None

C5_MissingIssuerOrSubject ==
    \A c \in Calls :
        LacksSubject(c) =>
            /\ Rejected(c, "MissingClaim")
            /\ vcall[c].resolved = <<>>
            /\ vcall[c].verified = <<>>

C5_Witness ==
    \E c \in Calls :
        /\ LacksSubject(c)
        /\ SelfIssued(vcall[c].payload)
        /\ vcall[c].exc = Exc("AssertionError", "Missing subject")

\* C6: whenever the verifier returns false or fails, the call ends
\* Rejected(SignatureInvalid), whatever exp, iat and aud are.
VerifierRefused(c) ==
    \/ vcall[c].verify = Some(FALSE)
    \/ vcall[c].verified # <<>> /\ vcall[c].verify = None /\ vcall[c].pc = "raised"

C6_SignatureInvalid ==
    \A c \in Calls : VerifierRefused(c) => Rejected(c, "SignatureInvalid")

C6_Witness ==
    \E c \in Calls :
        /\ vcall[c].verify = Some(FALSE)
        /\ vcall[c].payload.exp = None
        /\ vcall[c].payload.aud = Some(<<"c">>)
        /\ vcall[c].audience.kind = "str"
        /\ Rejected(c, "SignatureInvalid")

\* C7: the signing input handed to the verifier is segment 0, ".", segment 1
\* of the token as received, and the signature handed to it is segment 2 as
\* received; for a token create_jws produced, the signing input is the text
\* that was handed to the signer.
Dots(s) == Cardinality({ i \in 1..Len(s) : s[i].k = "." })

C7_SigningInputAsReceived ==
    \A c \in Calls :
        vcall[c].verified # <<>> =>
            LET v == vcall[c].verified[1] IN
            /\ vcall[c].jwt = v.data \o <<[k |-> ".", o |-> {}]>> \o v.signature
            /\ Dots(v.data) = 1
            /\ Dots(v.signature) = 0
            /\ (ccall.pc = "returned" /\ vcall[c].jwt = Val(ccall.ret)) =>
                  ccall.signed = <<v.data>>

C7_Witness ==
    \E c \in Calls :
        /\ ccall.pc = "returned"
        /\ vcall[c].jwt = Val(ccall.ret)
        /\ vcall[c].verified # <<>>
        /\ vcall[c].verified[1].data = ccall.signing_input

\* C8: with a skew of 300 s the temporal check passes if and only if
\* iat <= now + 300 and exp > now - 300: exp = now - 300 is rejected as
\* expired, exp = now - 299 passes; iat = now + 301 is rejected as issued in
\* the future, iat = now + 300 passes.
\* the call got as far as the temporal check
TemporalReached(c) ==
    /\ vcall[c].verify = Some(TRUE)
    /\ vcall[c].payload.exp # None
    /\ vcall[c].payload.iat # None

C8_TemporalWindow ==
    \A c \in Calls :
        TemporalReached(c) =>
            LET iat == Val(vcall[c].payload.iat)
                exp == Val(vcall[c].payload.exp)
                now == vcall[c].now
                msg == vcall[c].exc.msg
            IN /\ (iat <= now + 300 /\ exp > now - 300)
                     <=> msg \notin {"Issue time is in the future", "Expired JWT"}
               /\ iat > now + 300 <=> msg = "Issue time is in the future"
               /\ (iat <= now + 300 /\ exp <= now - 300) <=> msg = "Expired JWT"

C8_Witness ==
    \E c \in Calls :
        /\ TemporalReached(c)
        /\ Val(vcall[c].payload.exp) = vcall[c].now - 300
        /\ Val(vcall[c].payload.iat) = vcall[c].now + 300
        /\ vcall[c].exc = Exc("AssertionError", "Expired JWT")

\* C9 as stated: a token whose payload lacks exp, or lacks iat, or lacks both,
\* is never Accepted and ends Rejected(MissingClaim).
LacksTimestamp(c) ==
    /\ vcall[c].pc # "idle"
    /\ Reason(vcall[c].exc) # "FormatError"
    /\ vcall[c].payload.exp = None \/ vcall[c].payload.iat = None

C9_AlwaysMissingClaim ==
    \A c \in Calls :
        (LacksTimestamp(c) /\ vcall[c].pc \in {"returned", "raised"}) =>
            Rejected(c, "MissingClaim")

\* C9 as amended: a token whose payload lacks exp, or lacks iat, or lacks both,
\* is never Accepted; whenever the verifier has answered true for it, the call
\* ends Rejected(MissingClaim), whatever the value of the other claim.
C9_MissingTimestamps ==
    \A c \in Calls :
        LacksTimestamp(c) =>
            /\ ~Accepted(c)
            /\ vcall[c].verify = Some(TRUE) => Rejected(c, "MissingClaim")

C9_Witness ==
    \E c \in Calls :
        /\ LacksTimestamp(c)
        /\ vcall[c].verify = Some(TRUE)
        /\ vcall[c].payload.exp # None
        /\ Val(vcall[c].payload.exp) <= vcall[c].now - 300
        /\ vcall[c].exc = Exc("AssertionError", "Missing issue time")

\* C10: whenever payload.aud is present and config.audience is configured, the
\* audience check passes only if aud is a member of the configured collection,
\* resp. equals the configured str; every mismatch ends
\* Rejected(AudienceMismatch), for every aud and every configured audience,
\* the empty collection included.
\* the call got as far as the audience check
AudienceReached(c) ==
    /\ TemporalReached(c)
    /\ vcall[c].exc.msg \notin {"Issue time is in the future", "Expired JWT"}

C10_AudienceEnforced ==
    \A c \in Calls :
        (/\ AudienceReached(c)
         /\ vcall[c].payload.aud # None
         /\ vcall[c].audience.kind # "unset") =>
            IF AudienceRule(vcall[c].payload, vcall[c].audience)
            THEN Accepted(c)
            ELSE Rejected(c, "AudienceMismatch")


\* the call has ended: it returned its tuple or raised
Terminal(c) == vcall[c].pc \in {"returned", "raised"}

\* the two calls verify tokens that differ at most in the aud claim
DifferOnlyInAud(c, d) ==
    /\ [vcall[c].payload EXCEPT !.aud = None] = [vcall[d].payload EXCEPT !.aud = None]
    /\ vcall[c].header = vcall[d].header
    /\ vcall[c].signature = vcall[d].signature

\* the two calls got the same answers of the resolver and of the verifier, and
\* read the same clock
SameResponses(c, d) ==
    /\ vcall[c].did_resolution_result = vcall[d].did_resolution_result
    /\ (vcall[c].exc.cls = "ResolverError") = (vcall[d].exc.cls = "ResolverError")
    /\ vcall[c].verify = vcall[d].verify
    /\ (vcall[c].exc.cls = "VerifierError") = (vcall[d].exc.cls = "VerifierError")
    /\ vcall[c].now = vcall[d].now

AudTwins(c, d) ==
    /\ Terminal(c) /\ Terminal(d)
    /\ vcall[c].audience = Unset /\ vcall[d].audience = Unset
    /\ DifferOnlyInAud(c, d)
    /\ SameResponses(c, d)

\* C11: with no audience configured the outcome does not depend on aud: two
\* calls whose tokens differ only in the presence or value of aud, answered
\* alike by the resolver and the verifier and reading the same clock, end
\* alike: both return, with the same did and authenticator, or both raise the
\* same exception.
C11_UnsetAudienceIgnoresAud ==
    \A c \in Calls, d \in Calls :
        AudTwins(c, d) =>
            /\ vcall[c].pc = vcall[d].pc
            /\ vcall[c].exc = vcall[d].exc
            /\ vcall[c].did = vcall[d].did
            /\ vcall[c].authenticator = vcall[d].authenticator

\* one call accepted a token without aud, the other its twin with aud "c"
C11_Witness ==
    /\ AudTwins("v1", "v2")
    /\ vcall["v1"].payload.aud = None
    /\ vcall["v2"].payload.aud = Some(<<"c">>)
    /\ Accepted("v1") /\ Accepted("v2")

\* the payload inside the signing input a create_jwt call handed to its signer
SignedPayload == Decoded(Split(ccall.signed[1])[2])

\* C12: the payload create_jwt hands to the signer has iss equal to
\* options["issuer"], whatever iss the caller supplied, and always has iat and
\* exp: the caller's iat, resp. exp, when the caller supplied one, otherwise
\* iat is the clock reading of the call and exp is that reading plus 300.
C12_SignedPayload ==
    ccall.signed # <<>> =>
        /\ Decodable(Split(ccall.signed[1])[2])
        /\ SignedPayload.iss = Some(ccall.issuer)
        /\ SignedPayload.iat # None /\ SignedPayload.exp # None
        /\ SignedPayload.iat =
              IF ccall.payload.iat # None THEN ccall.payload.iat ELSE Some(ccall.iat)
        /\ SignedPayload.exp =
              IF ccall.payload.exp # None THEN ccall.payload.exp ELSE Some(ccall.iat + 300)
        /\ ccall.iat \in T0..clock

\* a caller that supplied iss and iat but no exp got a token signed
C12_Witness ==
    /\ ccall.pc = "returned"
    /\ ccall.payload.iss = Some(SubDid)
    /\ ccall.payload.iat = Some(T0 - 1)
    /\ ccall.payload.exp = None
    /\ SignedPayload.exp = Some(clock + 300)

\* the number of "."-separated segments of a text
Segments(s) == Dots(s) + 1

\* C13: a verify_jwt call on a token whose number of "."-separated segments is
\* not 3 ends Rejected(FormatError) by the assert of decode_jws, no other
\* exception leaves the call, and neither the resolver nor the verifier has
\* been invoked.
C13_SegmentCountRejected ==
    \A c \in Calls :
        (vcall[c].pc # "idle" /\ Segments(vcall[c].jwt) # 3) =>
            /\ Rejected(c, "FormatError")
            /\ vcall[c].exc = Exc("AssertionError", "")
            /\ vcall[c].resolved = <<>>
            /\ vcall[c].verified = <<>>

\* the token "a.b" was handed to verify_jwt
C13_Witness ==
    /\ vcall["v1"].jwt = <<SigCh("a"), Dot, SigCh("b")>>
    /\ vcall["v1"].pc = "raised"

\* the caller's payload holds none of the keys create_jwt and verify_jwt read
NoReservedKeys(payload) ==
    /\ payload.iss = None /\ payload.sub = None /\ payload.sub_jwk = None
    /\ payload.exp = None /\ payload.iat = None /\ payload.aud = None

\* C14: a create_jws call invokes the signer exactly once, and the token it
\* returns has exactly 3 "."-separated segments whatever signature string the
\* signer returned, so that decode_jws accepts it.
C14_ThreeSegments ==
    /\ Len(ccall.signed) <= 1
    /\ ccall.pc \in {"sign", "returned", "raised"} => Len(ccall.signed) = 1
    /\ ccall.pc = "returned" =>
          /\ Segments(Val(ccall.ret)) = 3
          /\ decode_jws_exc(Val(ccall.ret)) = Ok

\* C15: round trip: for a caller payload with none of the reserved keys,
\* decode_jwt of the token create_jwt returned yields a payload that, once the
\* injected iat, exp and iss are removed, equals the caller's payload, and a
\* header equal to the caller's header.
C15_RoundTrip ==
    (ccall.pc = "returned" /\ NoReservedKeys(ccall.payload)) =>
        /\ decode_jwt_exc(Val(ccall.ret)) = Ok
        /\ [decode_jwt(Val(ccall.ret)).payload
              EXCEPT !.iat = None, !.exp = None, !.iss = None] = ccall.payload
        /\ decode_jwt(Val(ccall.ret)).header = ccall.header

\* within one call the resolver and the verifier are invoked at most once each,
\* and a call whose resolver raised has ended, without invoking the verifier
NoRetry(c) ==
    /\ Len(vcall[c].resolved) <= 1
    /\ Len(vcall[c].verified) <= 1
    /\ vcall[c].exc.cls = "ResolverError" =>
          /\ Rejected(c, "ResolutionError")
          /\ Len(vcall[c].resolved) = 1
          /\ vcall[c].verified = <<>>

\* C16: fail-fast, no retry: a verify_jwt call invokes the resolver at most once
\* and the verifier at most once; a resolver failure ends the call
\* Rejected(ResolutionError) with the verifier never invoked; and, the
\* capabilities answering every call, a call that was made eventually ends,
\* returned or raised, and stays as it ended.
C16_FailFast ==
    /\ [](\A c \in Calls : NoRetry(c))
    /\ \A c \in Calls : (vcall[c].pc # "idle") ~> Terminal(c)
    /\ [][\A c \in Calls : Terminal(c) => vcall'[c] = vcall[c]]_vars

\* a call ended by a failure of the resolver
C16_Witness ==
    /\ vcall["v1"].exc.cls = "ResolverError"
    /\ vcall["v1"].pc = "raised"
    /\ Len(vcall["v1"].resolved) = 1

\* how a call ends that runs alone on the token and the configuration of l and
\* gets the capability answers and the clock reading l holds: the resolver
\* returned l.did_resolution_result or raised, the verifier returned l.verify
\* or raised
Alone(l) ==
    LET raised(e) == [pc |-> "raised", exc |-> e, did |-> None, authenticator |-> None] IN
    IF decode_jwt_exc(l.jwt) # Ok THEN raised(decode_jwt_exc(l.jwt))
    ELSE LET decoded == decode_jwt(l.jwt)
             subject == SubjectDid(decoded.payload, decoded.header)
         IN IF subject.exc # Ok THEN raised(subject.exc)
            ELSE IF l.did_resolution_result = None THEN raised(Exc("ResolverError", ""))
            ELSE LET selected == SelectAuthenticator(Val(l.did_resolution_result)) IN
                 IF selected.exc # Ok THEN raised(selected.exc)
                 ELSE IF l.verify = None THEN raised(Exc("VerifierError", ""))
                 ELSE LET e == ClaimsExc(Val(l.verify), decoded.payload, l.audience, l.now) IN
                      IF e # Ok THEN raised(e)
                      ELSE [pc |-> "returned", exc |-> Ok,
                            did |-> subject.did,
                            authenticator |-> selected.authenticator]

\* the call ended as it would have alone
EndsAsAlone(c) ==
    /\ vcall[c].pc = Alone(vcall[c]).pc
    /\ vcall[c].exc = Alone(vcall[c]).exc
    /\ Accepted(c) =>
          /\ vcall[c].did = Alone(vcall[c]).did
          /\ vcall[c].authenticator = Alone(vcall[c]).authenticator
          /\ ReturnValue(vcall[c]).payload = decode_jwt(vcall[c].jwt).payload
          /\ ReturnValue(vcall[c]).jwt = vcall[c].jwt

\* C17: concurrent verify_jwt calls on distinct tokens do not interfere: in
\* every interleaving of two calls at their awaits, each call ends in the state,
\* and returns the values, it would running alone with the same capability
\* answers and clock reading; and a step of one call writes nothing of the
\* other call, nor the clock.
C17_NoInterference ==
    /\ [](\A c \in Calls : Terminal(c) => EndsAsAlone(c))
    /\ [][\A c \in Calls : vcall'[c] # vcall[c] =>
            /\ \A d \in Calls \ {c} : vcall'[d] = vcall[d]
            /\ clock' = clock]_vars

\* both calls have ended, on distinct tokens with the same exp: one accepted
\* before the clock advanced, the other rejected as expired after it did
C17_Witness ==
    /\ Accepted("v1") /\ vcall["v1"].now = T0
    /\ Rejected("v2", "TemporalError") /\ vcall["v2"].now = T0 + 1
    /\ vcall["v1"].jwt # vcall["v2"].jwt
    /\ vcall["v1"].payload.exp = vcall["v2"].payload.exp

\* the call verifies the token the create_jwt call returned, which has the
\* default iat and exp, and has reached the temporal checks
DefaultTokenChecked(c) ==
    /\ ccall.pc = "returned"
    /\ ccall.payload.iat = None /\ ccall.payload.exp = None
    /\ Terminal(c)
    /\ vcall[c].jwt = Val(ccall.ret)
    /\ vcall[c].verify = Some(TRUE)

\* C18: a token created by create_jwt at t0 with no iat and exp of the caller
\* passes the temporal checks of verify_jwt at the clock reading now exactly
\* when t0 - 300 <= now <= t0 + 599; before, it is rejected as issued in the
\* future, and from now = t0 + 600 on as expired.
C18_ValidityWindow ==
    \A c \in Calls :
        DefaultTokenChecked(c) =>
            LET t0 == ccall.iat
                now == vcall[c].now
            IN /\ Accepted(c) <=> (t0 - 300 <= now /\ now <= t0 + 599)
               /\ now < t0 - 300 =>
                     vcall[c].exc = Exc("AssertionError", "Issue time is in the future")
               /\ now >= t0 + 600 =>
                     vcall[c].exc = Exc("AssertionError", "Expired JWT")

\* a default token accepted at the last second of its window
C18_Witness ==
    /\ DefaultTokenChecked("v1")
    /\ vcall["v1"].now = ccall.iat + 599
    /\ Accepted("v1")

\* the message of the first check, in the order exp missing, iat missing,
\* issued in the future, expired, that the payload violates at the reading
\* now; "" when it violates none of the four
FirstViolated(payload, now) ==
    IF payload.exp = None THEN "Missing expiration time"
    ELSE IF payload.iat = None THEN "Missing issue time"
    ELSE IF Val(payload.iat) > now + 300 THEN "Issue time is in the future"
    ELSE IF Val(payload.exp) <= now - 300 THEN "Expired JWT"
    ELSE ""

\* C19: the rejection follows the order of the pipeline: once the verifier has
\* answered, a false answer is reported as the signature failure whatever the
\* claims hold; after a true answer the reported reason is that of the first
\* violated check in the order exp missing, iat missing, issued in the future,
\* expired, audience.
C19_Precedence ==
    \A c \in Calls :
        /\ vcall[c].verify = None =>
              vcall[c].exc.msg \notin {"Missing expiration time", "Missing issue time",
                                       "Issue time is in the future", "Expired JWT",
                                       "Invalid audience"}
        /\ (Terminal(c) /\ vcall[c].verify # None) =>
            IF vcall[c].verify = Some(FALSE)
            THEN vcall[c].exc = Exc("AssertionError", "Signature verification failed")
            ELSE IF FirstViolated(vcall[c].payload, vcall[c].now) # ""
            THEN vcall[c].exc =
                    Exc("AssertionError", FirstViolated(vcall[c].payload, vcall[c].now))
            ELSE \/ Accepted(c)
                 \/ /\ vcall[c].exc = Exc("AssertionError", "Invalid audience")
                    /\ ~AudienceRule(vcall[c].payload, vcall[c].audience)

\* a token issued in the future, expired and with a foreign aud, its signature
\* verified: the issue time is what is reported
C19_Witness ==
    /\ vcall["v1"].verify = Some(TRUE)
    /\ vcall["v1"].payload.exp # None /\ vcall["v1"].payload.iat # None
    /\ Val(vcall["v1"].payload.iat) > vcall["v1"].now + 300
    /\ Val(vcall["v1"].payload.exp) <= vcall["v1"].now - 300
    /\ ~AudienceRule(vcall["v1"].payload, vcall["v1"].audience)
    /\ vcall["v1"].exc.msg = "Issue time is in the future"

\* the verifier of call c has just answered True, on a token that has exp and
\* iat and is not issued in the future
SignatureJustVerified(c) ==
    /\ vcall[c].pc = "verify" /\ vcall'[c].pc # "verify"
    /\ vcall'[c].verify = Some(TRUE)
    /\ vcall[c].payload.exp # None /\ vcall[c].payload.iat # None
    /\ Val(vcall[c].payload.iat) <= clock + 300

\* C20: the clock of the temporal checks is read after the resolver and the
\* verifier have returned, not on entry: when the verifier answers True, now
\* is the clock reading of that moment, and a token that was not expired when
\* the call was made (exp > entry - 300) but for which the clock has since
\* reached exp + 300 is rejected as expired.
C20_ClockReadAfterAwaits ==
    [][\A c \in Calls :
         /\ (vcall[c].pc = "verify" /\ vcall'[c].verify = Some(TRUE)) =>
               vcall'[c].now = clock
         /\ (/\ SignatureJustVerified(c)
             /\ Val(vcall[c].payload.exp) > vcall[c].entered - 300
             /\ clock >= Val(vcall[c].payload.exp) + 300) =>
               vcall'[c].exc = Exc("AssertionError", "Expired JWT")]_vars

\* a call made while its token was not expired, ended as expired
C20_Witness ==
    /\ vcall["v1"].verify = Some(TRUE)
    /\ vcall["v1"].payload.exp # None /\ vcall["v1"].payload.iat # None
    /\ Val(vcall["v1"].payload.exp) > vcall["v1"].entered - 300
    /\ vcall["v1"].now >= Val(vcall["v1"].payload.exp) + 300
    /\ vcall["v1"].now > vcall["v1"].entered
    /\ vcall["v1"].exc = Exc("AssertionError", "Expired JWT")
====
